---- MODULE Spec2Model ----
(***************************************************************************)
(* Window Embedding Core of WindowHub (src-tauri/src/lib.rs).              *)
(*                                                                         *)
(* The model keeps the registry ORIGINAL_STYLES and, for every foreign     *)
(* window, the window-manager state the commands read and write: validity, *)
(* style bits, extended style bits, screen rectangle and parent.  Every    *)
(* command handler is one action.  The delayed detach spawned by           *)
(* activate_window is a separate action, and so is the one event of the    *)
(* environment: a foreign window is destroyed.  The commands are issued by *)
(* the UI that runs inside the host's main window, so the main window      *)
(* exists whenever a handler runs.                                         *)
(*                                                                         *)
(* Spec runs the handlers one after the other, each from its call to its   *)
(* return.  SpecGeom does so for the geometry of one window, SpecLive adds *)
(* the fairness of the delayed-detach threads, SpecConc runs the handlers  *)
(* of embed, activate and release call by call on two threads, and         *)
(* SpecEnum applies enumerate_windows to every small desktop.              *)
(*                                                                         *)
(* A style bit field is the set of the names of its bits: `|` is \cup,     *)
(* `& !m` is \ m and the value 0 is {}.                                    *)
(***************************************************************************)
EXTENDS Integers, Sequences, FiniteSets, TLC

\* ------------------------------------------------------------------------
\* Bounds of the model
\* ------------------------------------------------------------------------

\* Largest number of delayed-detach threads alive at once.
MaxPending == 1

\* Largest perturbation, in pixels, of a requested rectangle's component.
MaxDelta == 2

\* Largest number of top-level windows on the desktop that is enumerated.
MaxDesktop == 3

\* ------------------------------------------------------------------------
\* Window-manager constants (windows crate, WindowsAndMessaging)
\* ------------------------------------------------------------------------

WS_BORDER == {"WS_BORDER"}
WS_DLGFRAME == {"WS_DLGFRAME"}
WS_CAPTION == WS_BORDER \cup WS_DLGFRAME
WS_THICKFRAME == {"WS_THICKFRAME"}
WS_MINIMIZEBOX == {"WS_MINIMIZEBOX"}
WS_MAXIMIZEBOX == {"WS_MAXIMIZEBOX"}
WS_SYSMENU == {"WS_SYSMENU"}
WS_POPUP == {"WS_POPUP"}
WS_CHILD == {"WS_CHILD"}
WS_VISIBLE == {"WS_VISIBLE"}
WS_CLIPCHILDREN == {"WS_CLIPCHILDREN"}
WS_CLIPSIBLINGS == {"WS_CLIPSIBLINGS"}
WS_OVERLAPPEDWINDOW ==
    WS_CAPTION \cup WS_SYSMENU \cup WS_THICKFRAME \cup WS_MINIMIZEBOX \cup WS_MAXIMIZEBOX
WS_EX_WINDOWEDGE == {"WS_EX_WINDOWEDGE"}
WS_EX_APPWINDOW == {"WS_EX_APPWINDOW"}

SWP_NOMOVE == {"SWP_NOMOVE"}
SWP_NOSIZE == {"SWP_NOSIZE"}
SWP_NOZORDER == {"SWP_NOZORDER"}
SWP_NOACTIVATE == {"SWP_NOACTIVATE"}
SWP_SHOWWINDOW == {"SWP_SHOWWINDOW"}
SWP_FRAMECHANGED == {"SWP_FRAMECHANGED"}

\* The null window handle, HWND(0), and the thread id the window manager
\* reports for a handle that is not a window.
NULL == 0

\* ------------------------------------------------------------------------
\* The host and the desktop
\* ------------------------------------------------------------------------

\* The host's main window ("main" webview window), the host's process and
\* the thread the commands run on.
HostFrame == 100
HostPid == 1
HostTid == 1

\* Screen position of the client (0,0) of the host frame.
HostOrigin == [x |-> 8, y |-> 31]

Handles == {1, 2}

RECT(l, t, r, b) == [left |-> l, top |-> t, right |-> r, bottom |-> b]

\* RECT::default()
RECT_default == RECT(0, 0, 0, 0)

\* The kinds of window found on the desktop: class name, owning process and
\* thread, the classes of the descendants in EnumChildWindows order, and the
\* style, extended style and screen rectangle the window starts with.
Profiles ==
    { [class |-> "Notepad", pid |-> 2, tid |-> 2,
       children |-> <<"Edit">>,
       style |-> WS_VISIBLE \cup WS_CLIPSIBLINGS \cup WS_OVERLAPPEDWINDOW,
       exstyle |-> WS_EX_WINDOWEDGE,
       rect |-> RECT(50, 60, 850, 660)],
      [class |-> "Chrome_WidgetWin_1", pid |-> 3, tid |-> 3,
       children |-> <<"Intermediate D3D Window", "Chrome_RenderWidgetHostHWND",
                      "Chrome_RenderWidgetHostHWND">>,
       style |-> WS_VISIBLE \cup WS_POPUP \cup WS_THICKFRAME \cup WS_CLIPCHILDREN,
       exstyle |-> WS_EX_APPWINDOW,
       rect |-> RECT(0, 0, 640, 480)],
      [class |-> "CabinetWClass", pid |-> 3, tid |-> 3,
       children |-> <<"Chrome_RenderWidgetHostHWND">>,
       style |-> WS_VISIBLE \cup WS_OVERLAPPEDWINDOW,
       exstyle |-> WS_EX_WINDOWEDGE,
       rect |-> RECT(50, 60, 850, 660)],
      [class |-> "My.Windows.UI.Core.CoreWindow.1", pid |-> 2, tid |-> 2,
       children |-> << >>,
       style |-> WS_VISIBLE \cup WS_POPUP,
       exstyle |-> {},
       rect |-> RECT(0, 0, 640, 480)],
      [class |-> "Tauri Window", pid |-> HostPid, tid |-> HostTid,
       children |-> <<"Chrome_WidgetWin_0">>,
       style |-> WS_VISIBLE \cup WS_OVERLAPPEDWINDOW,
       exstyle |-> WS_EX_APPWINDOW,
       rect |-> RECT(0, 0, 640, 480)] }

\* A handle that is not a window
DeadProfile ==
    [class |-> "", pid |-> 0, tid |-> NULL, children |-> << >>, style |-> {},
     exstyle |-> {}, rect |-> RECT_default]

\* The threads a foreign window can live on, and the detach jobs a command
\* can spawn: (id_current, id_target).
WindowTids == {p.tid : p \in Profiles}

\* The threads that run commands: the host's main thread and a second thread
\* of the runtime.
PoolTid == 4
Threads == {HostTid, PoolTid}

ThreadPairs == Threads \X WindowTids

\* Handle of the i-th descendant of window h.
ChildHwnd(h, i) == 10 * h + i

\* ------------------------------------------------------------------------
\* State
\* ------------------------------------------------------------------------

VARIABLES
    win,        \* static attributes of each window (a profile)
    valid,      \* IsWindow(h)
    style,      \* GWL_STYLE of h
    exstyle,    \* GWL_EXSTYLE of h
    rect,       \* GetWindowRect(h): screen rectangle
    parent,     \* GetParent(h): NULL or HostFrame
    hostStyle,  \* GWL_STYLE of the host frame
    registry,   \* ORIGINAL_STYLES: Vec<(hwnd, style, exstyle, RECT)>
    attached,   \* thread pairs whose input queues are attached
    pending,    \* delayed-detach threads spawned and not yet run, per pair
    balance,    \* per thread pair, successful attach calls minus detach
                \* calls so far (history); -1 once a detach call was issued
                \* that no earlier attach accounts for
    calls,      \* window-manager calls issued by the last step, in order
    lastOp,     \* the last step: command, handle, result, requested rectangle,
                \* and whether the step before was the same command on the
                \* same handle
    desktop,    \* the top-level windows EnumWindows visits, in its order
    listed,     \* the Vec<WindowInfo> the last enumerate_windows returned
    thr,        \* per command thread: where it is in its handler, the
                \* handler's locals, and its last result
    lock,       \* the thread that holds the mutex of ORIGINAL_STYLES, or NULL
    track       \* per handle, the embed/release cycle in progress (history):
                \* what the window was when the embed that began it ran

vars == <<win, valid, style, exstyle, rect, parent, hostStyle,
          registry, attached, pending, balance, calls, lastOp, desktop,
          listed, thr, lock, track>>

\* The mutable state the handlers transform, as one record.
World ==
    [valid |-> valid, style |-> style, exstyle |-> exstyle, rect |-> rect,
     parent |-> parent, hostStyle |-> hostStyle, registry |-> registry,
     attached |-> attached, pending |-> pending, balance |-> balance,
     calls |-> << >>]

NoReq == [x |-> 0, y |-> 0, w |-> 0, h |-> 0]
NoTrack ==
    [phase |-> "none", fresh |-> FALSE, empty |-> FALSE, style |-> {},
     exstyle |-> {}, rect |-> RECT_default]

\* ------------------------------------------------------------------------
\* The window manager, as the handlers use it.  Every operator takes the
\* world w and returns the world after the call; a call on a handle that is
\* not a window fails and changes nothing.
\* ------------------------------------------------------------------------

Call(f, h, arg) == [f |-> f, h |-> h, arg |-> arg]

Log(w, c) == [w EXCEPT !.calls = Append(@, c)]

\* GetWindowThreadProcessId(hwnd, Some(&mut pid)): pid stays 0 for a dead handle
GetWindowProcessId(w, h) == IF w.valid[h] THEN win[h].pid ELSE 0

\* GetWindowThreadProcessId(hwnd, None)
GetWindowThreadId(w, h) == IF w.valid[h] THEN win[h].tid ELSE NULL

\* GetWindowLongW(hwnd, GWL_STYLE)
GetStyle(w, h) == IF w.valid[h] THEN w.style[h] ELSE {}

\* GetWindowLongW(hwnd, GWL_EXSTYLE)
GetExStyle(w, h) == IF w.valid[h] THEN w.exstyle[h] ELSE {}

\* GetWindowRect(hwnd, &mut rect) into a RECT::default()
GetWindowRect(w, h) == IF w.valid[h] THEN w.rect[h] ELSE RECT_default

\* GetParent(hwnd)
GetParent(w, h) == IF w.valid[h] THEN w.parent[h] ELSE NULL

\* Screen position of the origin of the coordinates of a window whose parent
\* is p: the parent's client origin, or the screen's for a top-level window.
OriginOf(p) == IF p = HostFrame THEN HostOrigin ELSE [x |-> 0, y |-> 0]

\* Variant: the point is left in screen coordinates
ScreenToClient_screen(p, pt) == pt

\* ScreenToClient(parent, &mut pt)
ScreenToClient(p, pt) == [x |-> pt.x - OriginOf(p).x, y |-> pt.y - OriginOf(p).y]

\* SetWindowLongW(hwnd, GWL_STYLE, s)
SetStyle(w, h, s) ==
    LET w1 == Log(w, Call("set_style", h, [style |-> s]))
    IN  IF w.valid[h] THEN [w1 EXCEPT !.style[h] = s] ELSE w1

\* SetWindowLongW(hwnd, GWL_EXSTYLE, s)
SetExStyle(w, h, s) ==
    LET w1 == Log(w, Call("set_exstyle", h, [style |-> s]))
    IN  IF w.valid[h] THEN [w1 EXCEPT !.exstyle[h] = s] ELSE w1

\* Variant: the style of the host frame is not written
SetHostStyle_none(w, s) == w

\* SetWindowLongW(parent, GWL_STYLE, s) on the host frame
SetHostStyle(w, s) ==
    [Log(w, Call("set_style", HostFrame, [style |-> s])) EXCEPT !.hostStyle = s]

\* SetParent(hwnd, p): the window keeps its coordinates, which are now
\* relative to the new parent.
SetParent(w, h, p) ==
    LET w1 == Log(w, Call("set_parent", h, [parent |-> p]))
        old == OriginOf(w.parent[h])
        new == OriginOf(p)
        r == w.rect[h]
        dx == new.x - old.x
        dy == new.y - old.y
    IN  IF w.valid[h]
        THEN [w1 EXCEPT !.parent[h] = p,
                        !.rect[h] = RECT(r.left + dx, r.top + dy,
                                         r.right + dx, r.bottom + dy)]
        ELSE w1

\* SetWindowPos(hwnd, after, x, y, cx, cy, flags); x, y are relative to the
\* parent's client area.  Z-order is not part of the state.
SetWindowPos(w, h, after, x, y, cx, cy, flags) ==
    LET w1 == Log(w, Call("set_pos", h,
                          [after |-> after, x |-> x, y |-> y, cx |-> cx,
                           cy |-> cy, flags |-> flags]))
        r == w.rect[h]
        o == OriginOf(w.parent[h])
        l == IF SWP_NOMOVE \subseteq flags THEN r.left ELSE o.x + x
        t == IF SWP_NOMOVE \subseteq flags THEN r.top ELSE o.y + y
        wd == IF SWP_NOSIZE \subseteq flags THEN r.right - r.left ELSE cx
        ht == IF SWP_NOSIZE \subseteq flags THEN r.bottom - r.top ELSE cy
        s == IF SWP_SHOWWINDOW \subseteq flags
             THEN w.style[h] \cup WS_VISIBLE ELSE w.style[h]
    IN  IF w.valid[h]
        THEN [w1 EXCEPT !.rect[h] = RECT(l, t, l + wd, t + ht), !.style[h] = s]
        ELSE w1

\* ShowWindow(hwnd, cmd), cmd one of SW_HIDE, SW_SHOW, SW_RESTORE
ShowWindow(w, h, cmd) ==
    LET w1 == Log(w, Call("show", h, [cmd |-> cmd]))
        s == IF cmd = "SW_HIDE" THEN w.style[h] \ WS_VISIBLE
             ELSE w.style[h] \cup WS_VISIBLE
    IN  IF w.valid[h] THEN [w1 EXCEPT !.style[h] = s] ELSE w1

\* SetForegroundWindow(hwnd)
SetForegroundWindow(w, h) == Log(w, Call("set_foreground", h, [cmd |-> "none"]))

\* SetActiveWindow(hwnd)
SetActiveWindow(w, h) == Log(w, Call("set_active", h, [cmd |-> "none"]))

\* SetFocus(hwnd)
SetFocus(w, h) == Log(w, Call("set_focus", h, [cmd |-> "none"]))

\* PostMessageW(hwnd, WM_CLOSE, 0, 0)
PostClose(w, h) == Log(w, Call("post_close", h, [cmd |-> "WM_CLOSE"]))

\* Outcome of AttachThreadInput(src, dst, TRUE): it fails for a thread that
\* does not exist, and may fail for one that does (osOk).
AttachSucceeds(src, dst, osOk) == osOk /\ dst # NULL /\ src # dst

\* The history of the calls of a pair of threads after one more successful
\* attach, and after one more detach.  A call whose target is NULL, the
\* thread of a handle that is not a window, names no pair.
CountAttach(n) == IF n = -1 THEN -1 ELSE n + 1
CountDetach(n) == IF n <= 0 THEN -1 ELSE n - 1

\* AttachThreadInput(src, dst, fAttach); the call is logged with its result
AttachThreadInput(w, src, dst, fAttach, osOk) ==
    LET w1 == Log(w, Call("attach_input", NULL,
                          [src |-> src, dst |-> dst, attach |-> fAttach,
                           ok |-> (fAttach => AttachSucceeds(src, dst, osOk))]))
    IN  IF fAttach
        THEN IF AttachSucceeds(src, dst, osOk)
             THEN [w1 EXCEPT !.attached = @ \cup {<<src, dst>>},
                             !.balance[<<src, dst>>] = CountAttach(@)]
             ELSE w1
        ELSE IF dst = NULL THEN w1
        ELSE [w1 EXCEPT !.attached = @ \ {<<src, dst>>},
                        !.balance[<<src, dst>>] = CountDetach(@)]

\* ------------------------------------------------------------------------
\* Classifier
\* ------------------------------------------------------------------------

\* str::contains
Contains(s, d) ==
    \E i \in 1..(Len(s) - Len(d) + 1) : SubSeq(s, i, i + Len(d) - 1) = d

\* The array `dangerous` of is_dangerous_window
dangerous ==
    <<"CabinetWClass", "ExplorerWClass", "Progman", "WorkerW", "Shell_TrayWnd",
      "Shell_SecondaryTrayWnd", "TaskManagerWindow", "Windows.UI.Core.CoreWindow">>

\* Variant: the class is compared for equality with the entries
is_dangerous_window_exact(class_name) ==
    \E i \in 1..Len(dangerous) : class_name = dangerous[i]

is_dangerous_window(class_name) ==
    \E i \in 1..Len(dangerous) : Contains(class_name, dangerous[i])

is_self_window(w, h) == GetWindowProcessId(w, h) = HostPid

\* GetClassNameW fills nothing for a handle that is not a window
get_class_name(w, h) == IF w.valid[h] THEN win[h].class ELSE ""

\* ------------------------------------------------------------------------
\* Registry
\* ------------------------------------------------------------------------

\* styles.iter().any(|(h, _, _, _)| *h == target_hwnd)
RegistryHas(styles, h) == \E i \in 1..Len(styles) : styles[i].hwnd = h

\* styles.iter().find(|(h, _, _, _)| *h == target_hwnd): index of the first
\* entry of h; used only when there is one
RegistryFind(styles, h) ==
    CHOOSE i \in 1..Len(styles) :
        /\ styles[i].hwnd = h
        /\ \A j \in 1..(i - 1) : styles[j].hwnd # h

\* Variant: the entry is pushed without looking for an earlier one
RegistryInsert_always(styles, h, s, xs, r) ==
    Append(styles, [hwnd |-> h, style |-> s, exstyle |-> xs, rect |-> r])

\* if !styles.iter().any(..) { styles.push(..) }
RegistryInsert(styles, h, s, xs, r) ==
    IF ~RegistryHas(styles, h)
    THEN Append(styles, [hwnd |-> h, style |-> s, exstyle |-> xs, rect |-> r])
    ELSE styles

\* Variant: release_window removes the entry of the handle
RegistryAfterRelease_remove(styles, h) ==
    SelectSeq(styles, LAMBDA e : e.hwnd # h)

\* release_window takes the lock, reads the entry and drops the lock; the
\* vector is left as it is
RegistryAfterRelease(styles, h) == styles

\* ------------------------------------------------------------------------
\* Handlers.  Each returns [w |-> world after the call, res |-> result].
\* ------------------------------------------------------------------------

RenderClass == "Chrome_RenderWidgetHostHWND"

\* Variant: the callback does not stop the enumeration, the last match wins
find_render_window_last(h) ==
    LET cs == win[h].children
        hits == {i \in 1..Len(cs) : cs[i] = RenderClass}
    IN  IF hits = {} THEN NULL
        ELSE ChildHwnd(h, CHOOSE i \in hits : \A j \in hits : i >= j)

\* The callback stops the enumeration at the first descendant of the class
find_render_window(h) ==
    LET cs == win[h].children
        hits == {i \in 1..Len(cs) : cs[i] = RenderClass}
    IN  IF hits = {} THEN NULL
        ELSE ChildHwnd(h, CHOOSE i \in hits : \A j \in hits : i <= j)

\* Variant: the threads are not compared
ThreadsDiffer_always(id_current, id_target) == TRUE

\* if id_current != id_target
ThreadsDiffer(id_current, id_target) == id_current # id_target

\* Variant: the detach is made at once, by the thread of the command
SpawnDetach_inline(w, id_current, id_target) ==
    AttachThreadInput(w, id_current, id_target, FALSE, TRUE)

\* std::thread::spawn of the delayed detach
SpawnDetach(w, id_current, id_target) ==
    [Log(w, Call("spawn_detach", NULL, [src |-> id_current, dst |-> id_target]))
        EXCEPT !.pending[<<id_current, id_target>>] = @ + 1]

activate_window(w, h, id_current, osOk) ==
    IF ~w.valid[h] THEN [w |-> w, res |-> "Ok(false)"]
    ELSE
    LET id_target == GetWindowThreadId(w, h)
        attachedNow == IF ThreadsDiffer(id_current, id_target)
                       THEN AttachSucceeds(id_current, id_target, osOk)
                       ELSE FALSE
        w1 == IF ThreadsDiffer(id_current, id_target)
              THEN AttachThreadInput(w, id_current, id_target, TRUE, osOk)
              ELSE w
        w2 == SetWindowPos(w1, h, "HWND_TOP", 0, 0, 0, 0,
                           SWP_NOMOVE \cup SWP_NOSIZE \cup SWP_SHOWWINDOW)
        render_hwnd == find_render_window(h)
        target == IF render_hwnd # NULL THEN render_hwnd ELSE h
        w3 == SetFocus(SetActiveWindow(w2, target), target)
        w4 == IF attachedNow THEN SpawnDetach(w3, id_current, id_target) ELSE w3
    IN  [w |-> w4, res |-> "Ok(true)"]

\* The style embed_window gives the window
EmbedStyle(original_style) ==
    (original_style \ (WS_CAPTION \cup WS_THICKFRAME \cup WS_MINIMIZEBOX
                       \cup WS_MAXIMIZEBOX \cup WS_SYSMENU \cup WS_POPUP
                       \cup WS_BORDER \cup WS_DLGFRAME))
    \cup WS_CHILD \cup WS_VISIBLE

\* The rejections of embed_window and can_embed_window, "" when there is none
Rejection(w, h) ==
    IF is_self_window(w, h) THEN "Err(self)"
    ELSE IF is_dangerous_window(get_class_name(w, h)) THEN "Err(dangerous)"
    ELSE ""

embed_window(w, h, id_current, osOk) ==
    IF Rejection(w, h) # "" THEN [w |-> w, res |-> Rejection(w, h)]
    ELSE
    LET parent_style == w.hostStyle
        w1 == IF parent_style \cap WS_CLIPCHILDREN = {}
              THEN SetHostStyle(w, parent_style \cup WS_CLIPCHILDREN)
              ELSE w
        original_style == GetStyle(w1, h)
        original_exstyle == GetExStyle(w1, h)
        original_rect == GetWindowRect(w1, h)
        w2 == [w1 EXCEPT !.registry = RegistryInsert(@, h, original_style,
                                                     original_exstyle, original_rect)]
        new_style == EmbedStyle(original_style)
        w3 == SetStyle(w2, h, new_style)
        w4 == SetParent(w3, h, HostFrame)
        w5 == SetWindowPos(w4, h, "HWND_TOP", 0, 0, 0, 0,
                           SWP_NOMOVE \cup SWP_NOSIZE \cup SWP_SHOWWINDOW)
        w6 == activate_window(w5, h, id_current, osOk).w
    IN  [w |-> w6, res |-> "Ok(true)"]

can_embed_window(w, h) ==
    IF Rejection(w, h) # "" THEN Rejection(w, h) ELSE "Ok(true)"

\* Variant: right and bottom are passed as the width and the height
RestoreOriginal_corner(w, h, e) ==
    LET w1 == SetStyle(w, h, e.style)
        w2 == SetExStyle(w1, h, e.exstyle)
    IN  SetWindowPos(w2, h, "HWND_TOP", e.rect.left, e.rect.top, e.rect.right,
                     e.rect.bottom, SWP_FRAMECHANGED \cup SWP_SHOWWINDOW)

\* The branch of release_window that found the registry entry e
RestoreOriginal(w, h, e) ==
    LET w1 == SetStyle(w, h, e.style)
        w2 == SetExStyle(w1, h, e.exstyle)
        width == e.rect.right - e.rect.left
        height == e.rect.bottom - e.rect.top
    IN  SetWindowPos(w2, h, "HWND_TOP", e.rect.left, e.rect.top, width, height,
                     SWP_FRAMECHANGED \cup SWP_SHOWWINDOW)

\* Variant: without an entry the style of the window is left as it is
RestoreDefault_keep(w, h) ==
    SetWindowPos(w, h, "HWND_TOP", 100, 100, 800, 600,
                 SWP_FRAMECHANGED \cup SWP_SHOWWINDOW)

\* The branch of release_window that found no registry entry
RestoreDefault(w, h) ==
    LET default_style == WS_OVERLAPPEDWINDOW \cup WS_VISIBLE
        w1 == SetStyle(w, h, default_style)
    IN  SetWindowPos(w1, h, "HWND_TOP", 100, 100, 800, 600,
                     SWP_FRAMECHANGED \cup SWP_SHOWWINDOW)

release_window(w, h, id_current) ==
    LET id_target == GetWindowThreadId(w, h)
        w1 == IF ThreadsDiffer(id_current, id_target)
              THEN AttachThreadInput(w, id_current, id_target, FALSE, TRUE)
              ELSE w
        w2 == SetParent(w1, h, NULL)
        styles == w2.registry
        w3 == IF RegistryHas(styles, h)
              THEN RestoreOriginal(w2, h, styles[RegistryFind(styles, h)])
              ELSE RestoreDefault(w2, h)
        w4 == [w3 EXCEPT !.registry = RegistryAfterRelease(@, h)]
        w5 == ShowWindow(w4, h, "SW_RESTORE")
        w6 == SetForegroundWindow(w5, h)
    IN  [w |-> w6, res |-> "Ok(true)"]

\* i32::abs
Abs(n) == IF n < 0 THEN -n ELSE n

\* Variant: no tolerance, the four components are compared for equality
WithinTolerance_exact(pt_tl, current_w, current_h, x, y, width, height) ==
    pt_tl.x = x /\ pt_tl.y = y /\ current_w = width /\ current_h = height

\* (pt_tl.x - x).abs() <= 1 && ... on the four components
WithinTolerance(pt_tl, current_w, current_h, x, y, width, height) ==
    /\ Abs(pt_tl.x - x) <= 1
    /\ Abs(pt_tl.y - y) <= 1
    /\ Abs(current_w - width) <= 1
    /\ Abs(current_h - height) <= 1

\* Variant: the handle is not checked with IsWindow
update_window_rect_unchecked(w, h, x, y, width, height) ==
    LET r == GetWindowRect(w, h)
        p == GetParent(w, h)
        pt_tl == ScreenToClient(p, [x |-> r.left, y |-> r.top])
        current_w == r.right - r.left
        current_h == r.bottom - r.top
    IN  IF p # NULL /\ WithinTolerance(pt_tl, current_w, current_h, x, y, width, height)
        THEN [w |-> w, res |-> "Ok(true)"]
        ELSE [w |-> SetWindowPos(w, h, "NULL", x, y, width, height,
                                 SWP_NOZORDER \cup SWP_NOACTIVATE \cup SWP_SHOWWINDOW),
              res |-> "Ok(true)"]

update_window_rect(w, h, x, y, width, height) ==
    IF ~w.valid[h] THEN [w |-> w, res |-> "Ok(false)"]
    ELSE
    LET r == GetWindowRect(w, h)
        p == GetParent(w, h)
        pt_tl == ScreenToClient(p, [x |-> r.left, y |-> r.top])
        current_w == r.right - r.left
        current_h == r.bottom - r.top
    IN  IF p # NULL /\ WithinTolerance(pt_tl, current_w, current_h, x, y, width, height)
        THEN [w |-> w, res |-> "Ok(true)"]
        ELSE [w |-> SetWindowPos(w, h, "NULL", x, y, width, height,
                                 SWP_NOZORDER \cup SWP_NOACTIVATE \cup SWP_SHOWWINDOW),
              res |-> "Ok(true)"]

\* Variant: the close message is posted first, the window released after
close_target_window_late(w, h, id_current) ==
    [w |-> release_window(PostClose(w, h), h, id_current).w, res |-> "Ok(true)"]

close_target_window(w, h, id_current) ==
    [w |-> PostClose(release_window(w, h, id_current).w, h), res |-> "Ok(true)"]

hide_window(w, h) == [w |-> ShowWindow(w, h, "SW_HIDE"), res |-> "true"]

show_window(w, h) == [w |-> ShowWindow(w, h, "SW_SHOW"), res |-> "true"]

\* ------------------------------------------------------------------------
\* Enumeration.  A top-level window is a record of what the callback reads:
\* its handle, IsWindowVisible, owning process, title, class and rectangle.
\* ------------------------------------------------------------------------

\* The array `excluded` of enum_window_callback
excluded ==
    <<"Progman", "Shell_TrayWnd", "Shell_SecondaryTrayWnd",
      "Windows.UI.Core.CoreWindow", "ApplicationFrameWindow", "WorkerW",
      "TaskManagerWindow">>

\* excluded.contains(&class_name.as_str()): slice::contains, equality
IsExcluded(class_name) ==
    \E i \in 1..Len(excluded) : excluded[i] = class_name

WindowInfo(t) ==
    [hwnd |-> t.hwnd, title |-> t.title, class_name |-> t.class,
     width |-> t.rect.right - t.rect.left,
     height |-> t.rect.bottom - t.rect.top]

\* Variant: a window of 100 by 100 pixels is large enough
LargeEnough_inclusive(width, height) == width >= 100 /\ height >= 100

\* if width > 100 && height > 100
LargeEnough(width, height) == width > 100 /\ height > 100

\* One call of the callback: the vector after window t was visited
enum_window_callback(windows, t) ==
    IF ~t.visible THEN windows
    ELSE IF t.pid = HostPid THEN windows
    ELSE IF t.title = "" \/ Contains(t.title, "WindowHub") THEN windows
    ELSE IF IsExcluded(t.class) THEN windows
    ELSE IF LargeEnough(t.rect.right - t.rect.left, t.rect.bottom - t.rect.top)
    THEN Append(windows, WindowInfo(t))
    ELSE windows

\* EnumWindows: the callback is called for the windows from position i on; it
\* always returns TRUE, so none is left out
RECURSIVE EnumWindows(_, _, _)
EnumWindows(d, i, windows) ==
    IF i > Len(d) THEN windows
    ELSE EnumWindows(d, i + 1, enum_window_callback(windows, d[i]))

enumerate_windows(d) == EnumWindows(d, 1, << >>)

\* ------------------------------------------------------------------------
\* Inputs
\* ------------------------------------------------------------------------

\* The content rectangle of the first end-to-end scenario
BaseReq == [x |-> 0, y |-> 40, w |-> 1200, h |-> 700]

\* Requested rectangles: the base rectangle with at most one component
\* moved by up to MaxDelta pixels
ReqRects ==
    {BaseReq}
    \cup {[BaseReq EXCEPT !.x = @ + d] : d \in 1..MaxDelta}
    \cup {[BaseReq EXCEPT !.y = @ + d] : d \in 1..MaxDelta}
    \cup {[BaseReq EXCEPT !.w = @ + d] : d \in 1..MaxDelta}
    \cup {[BaseReq EXCEPT !.h = @ + d] : d \in 1..MaxDelta}

\* The kinds of top-level window a desktop is made of
TopKinds ==
    { [visible |-> TRUE, pid |-> 2, title |-> "notes.txt - Editor",
       class |-> "Notepad", rect |-> RECT(200, 100, 600, 400)],
      [visible |-> FALSE, pid |-> 2, title |-> "notes.txt - Editor",
       class |-> "Notepad", rect |-> RECT(200, 100, 600, 400)],
      [visible |-> TRUE, pid |-> HostPid, title |-> "Hub",
       class |-> "Tauri Window", rect |-> RECT(0, 0, 1200, 800)],
      [visible |-> TRUE, pid |-> 3, title |-> "About WindowHub - Browser",
       class |-> "Chrome_WidgetWin_1", rect |-> RECT(0, 0, 640, 480)],
      [visible |-> TRUE, pid |-> 5, title |-> "",
       class |-> "Shell_TrayWnd", rect |-> RECT(0, 1040, 1920, 1080)],
      [visible |-> TRUE, pid |-> 5, title |-> "Program Manager",
       class |-> "Progman", rect |-> RECT(0, 0, 1920, 1080)],
      [visible |-> TRUE, pid |-> 6, title |-> "Player",
       class |-> "My.Windows.UI.Core.CoreWindow.1", rect |-> RECT(0, 0, 640, 480)],
      [visible |-> TRUE, pid |-> 6, title |-> "Shell",
       class |-> "Windows", rect |-> RECT(0, 0, 640, 480)],
      [visible |-> TRUE, pid |-> 7, title |-> "Tip",
       class |-> "tooltips_class32", rect |-> RECT(10, 10, 110, 310)],
      [visible |-> TRUE, pid |-> 7, title |-> "Bar",
       class |-> "ToolbarWindow32", rect |-> RECT(10, 10, 310, 110)],
      [visible |-> TRUE, pid |-> 7, title |-> "Palette",
       class |-> "Palette", rect |-> RECT(10, 10, 111, 111)] }

\* Handle of the window EnumWindows visits in position i
TopHwnd(i) == 200 + i

\* The desktops: at most MaxDesktop top-level windows, of any kinds, in any
\* order
Desktops ==
    UNION { { [i \in 1..n |->
                 [hwnd |-> TopHwnd(i), visible |-> f[i].visible, pid |-> f[i].pid,
                  title |-> f[i].title, class |-> f[i].class, rect |-> f[i].rect]] :
              f \in [1..n -> TopKinds] } : n \in 0..MaxDesktop }

\* Style of the host frame when it is created
HostStyle0 == WS_VISIBLE \cup WS_OVERLAPPEDWINDOW

\* Outcomes of an AttachThreadInput(.., TRUE) on an existing thread
OsOutcomes == BOOLEAN

RECURSIVE SumOver(_, _)
SumOver(pd, S) ==
    IF S = {} THEN 0
    ELSE LET p == CHOOSE q \in S : TRUE IN pd[p] + SumOver(pd, S \ {p})

\* Number of delayed-detach threads alive
PendingTotal(pd) == SumOver(pd, DOMAIN pd)

\* ------------------------------------------------------------------------
\* Initial state and actions
\* ------------------------------------------------------------------------

\* The command threads: thread k runs on Tid(k) and issues its commands on
\* the window of handle k.
Workers == {1, 2}
Tid(k) == IF k = 1 THEN HostTid ELSE PoolTid

\* A thread that runs no handler
Idle ==
    [pc |-> "idle", cmd |-> "none", n |-> 0, res |-> "", style |-> {},
     exstyle |-> {}, rect |-> RECT_default, found |-> FALSE, tid |-> NULL,
     att |-> FALSE]

\* The state after construction, the windows of the two handles being f[1]
\* and f[2]: the registry is empty, no thread runs a handler, the mutex is
\* free.
Start(f) ==
    /\ win = f
    /\ valid = [h \in Handles |-> win[h] # DeadProfile]
    /\ style = [h \in Handles |-> win[h].style]
    /\ exstyle = [h \in Handles |-> win[h].exstyle]
    /\ rect = [h \in Handles |-> win[h].rect]
    /\ parent = [h \in Handles |-> NULL]
    /\ hostStyle = HostStyle0
    /\ registry = << >>
    /\ attached = {}
    /\ pending = [p \in ThreadPairs |-> 0]
    /\ balance = [p \in ThreadPairs |-> 0]
    /\ calls = << >>
    /\ lastOp = [op |-> "init", h |-> NULL, res |-> "", req |-> NoReq, rep |-> FALSE]
    /\ track = [h \in Handles |-> NoTrack]
    /\ listed = << >>
    /\ thr = [k \in Workers |-> Idle]
    /\ lock = NULL

\* Handle 1 is a window of any kind, handle 2 is not a window
Init ==
    /\ \E p \in Profiles : Start([h \in Handles |-> IF h = 1 THEN p ELSE DeadProfile])
    /\ desktop = << >>

\* The world w becomes the state
Apply(w) ==
    /\ valid' = w.valid
    /\ style' = w.style
    /\ exstyle' = w.exstyle
    /\ rect' = w.rect
    /\ parent' = w.parent
    /\ hostStyle' = w.hostStyle
    /\ registry' = w.registry
    /\ attached' = w.attached
    /\ pending' = w.pending
    /\ balance' = w.balance
    /\ calls' = w.calls
    /\ UNCHANGED <<win, desktop, listed>>

\* The handler ran from its call to its return, and returned: its world
\* becomes the state
Commit(w) == Apply(w) /\ UNCHANGED <<thr, lock>>

Done(op, h, res, req) ==
    lastOp' = [op |-> op, h |-> h, res |-> res, req |-> req,
               rep |-> (lastOp.op = op /\ lastOp.h = h)]

\* History of a successful embed of a window: a cycle begins unless one is in
\* progress.  fresh: the window was free and had no registry entry, and then
\* the history keeps what the window was; empty: the registry was empty.
TrackEmbed(h) ==
    IF track[h].phase = "embedded" THEN track[h]
    ELSE IF parent[h] = NULL /\ ~RegistryHas(registry, h)
    THEN [phase |-> "embedded", fresh |-> TRUE, empty |-> (registry = << >>),
          style |-> style[h], exstyle |-> exstyle[h], rect |-> rect[h]]
    ELSE [NoTrack EXCEPT !.phase = "embedded"]

\* History of a release: it ends the cycle in progress
TrackRelease(h) ==
    IF track[h].phase = "embedded" THEN [track[h] EXCEPT !.phase = "released"]
    ELSE NoTrack

\* History of update_rect, activate, hide and show: they belong to the cycle
\* in progress; after its release they are a change of the free window
TrackUse(h) == IF track[h].phase = "embedded" THEN track[h] ELSE NoTrack

Embed(h, Os) ==
    \E osOk \in Os :
        LET r == embed_window(World, h, HostTid, osOk)
        IN  /\ PendingTotal(r.w.pending) <= MaxPending
            /\ Commit(r.w)
            /\ Done("embed", h, r.res, NoReq)
            /\ track' = [track EXCEPT ![h] =
                            IF r.res = "Ok(true)" /\ valid[h]
                            THEN TrackEmbed(h) ELSE NoTrack]

CanEmbed(h) ==
    /\ Commit(World)
    /\ Done("can_embed", h, can_embed_window(World, h), NoReq)
    /\ UNCHANGED track

Release(h) ==
    LET r == release_window(World, h, HostTid)
    IN  /\ Commit(r.w)
        /\ Done("release", h, r.res, NoReq)
        /\ track' = [track EXCEPT ![h] = TrackRelease(h)]

Close(h) ==
    LET r == close_target_window(World, h, HostTid)
    IN  /\ Commit(r.w)
        /\ Done("close", h, r.res, NoReq)
        /\ track' = [track EXCEPT ![h] = NoTrack]

UpdateRect(h, Q) ==
    \E q \in Q :
        LET r == update_window_rect(World, h, q.x, q.y, q.w, q.h)
        IN  /\ Commit(r.w)
            /\ Done("update_rect", h, r.res, q)
            /\ track' = [track EXCEPT ![h] = TrackUse(h)]

Activate(h, Os) ==
    \E osOk \in Os :
        LET r == activate_window(World, h, HostTid, osOk)
        IN  /\ PendingTotal(r.w.pending) <= MaxPending
            /\ Commit(r.w)
            /\ Done("activate", h, r.res, NoReq)
            /\ track' = [track EXCEPT ![h] = TrackUse(h)]

Hide(h) ==
    LET r == hide_window(World, h)
    IN  /\ Commit(r.w)
        /\ Done("hide", h, r.res, NoReq)
        /\ track' = [track EXCEPT ![h] = TrackUse(h)]

Show(h) ==
    LET r == show_window(World, h)
    IN  /\ Commit(r.w)
        /\ Done("show", h, r.res, NoReq)
        /\ track' = [track EXCEPT ![h] = TrackUse(h)]

\* The thread spawned by activate_window wakes up and detaches
DetachTask(p) ==
    /\ pending[p] > 0
    /\ Commit(AttachThreadInput([World EXCEPT !.pending[p] = @ - 1],
                                p[1], p[2], FALSE, TRUE))
    /\ Done("detach_task", NULL, "", NoReq)
    /\ UNCHANGED track

\* The foreign process destroys its window
WindowDestroyed(h) ==
    /\ valid[h]
    /\ Commit([World EXCEPT !.valid[h] = FALSE, !.style[h] = {}, !.exstyle[h] = {},
                            !.rect[h] = RECT_default, !.parent[h] = NULL])
    /\ Done("destroyed", h, "", NoReq)
    /\ track' = [track EXCEPT ![h] = NoTrack]

\* The handles the UI passes to can_embed, close, hide and show: the window.
\* The handle that is not a window is passed to the commands that read or
\* write the registry or test the handle: embed, release, update_rect and
\* activate.
Shown == {1}

Next ==
    \/ \E h \in Handles : Embed(h, OsOutcomes)
    \/ \E h \in Shown : CanEmbed(h)
    \/ \E h \in Handles : Release(h)
    \/ \E h \in Shown : Close(h)
    \/ \E h \in Handles : UpdateRect(h, {BaseReq})
    \/ \E h \in Handles : Activate(h, OsOutcomes)
    \/ \E h \in Shown : Hide(h)
    \/ \E h \in Shown : Show(h)
    \/ \E p \in ThreadPairs : DetachTask(p)
    \/ \E h \in Handles : WindowDestroyed(h)

\* Every command, the window of handle 1 being any kind of window and
\* handle 2 not being a window; one content rectangle.
Spec == Init /\ [][Next]_vars

\* Geometry: one editor window, every requested rectangle, and the commands
\* that change a window's geometry or parent.  The attach of the activation
\* inside embed fails, so that no detach thread is in flight.
InitGeom == Init /\ win[1].class = "Notepad"

NextGeom ==
    \/ Embed(1, {FALSE})
    \/ UpdateRect(1, ReqRects)
    \/ Release(1)
    \/ Hide(1)
    \/ Show(1)
    \/ WindowDestroyed(1)

SpecGeom == InitGeom /\ [][NextGeom]_vars

\* ------------------------------------------------------------------------
\* The handlers call by call.  Commands run on two threads: thread 1 issues
\* embed, activate and release on window 1 again and again, thread 2 embeds
\* window 2 once.  A step is one call of the window manager or one operation
\* on the mutex, with the reads that precede it; the steps of the threads
\* and the delayed detaches interleave freely.
\* ------------------------------------------------------------------------

ProfileOf(c) == CHOOSE p \in Profiles : p.class = c

\* Two eligible windows on different threads
InitConc ==
    /\ Start([h \in Handles |-> IF h = 1 THEN ProfileOf("Notepad")
                                 ELSE ProfileOf("Chrome_WidgetWin_1")])
    /\ desktop = << >>

\* Thread k may call the handler of cmd
MayCall(k, cmd) ==
    /\ thr[k].pc = "idle"
    /\ k = 1 \/ (cmd = "embed" /\ thr[k].n = 0)

\* Thread k at the entry of the handler of cmd; n tells its first call from
\* the later ones
Began(k, cmd) == [Idle EXCEPT !.cmd = cmd, !.n = IF thr[k].n = 0 THEN 1 ELSE 2]

\* Thread k returning res
Returned(t, res) == [Idle EXCEPT !.cmd = t.cmd, !.n = t.n, !.res = res]

StepOp == [op |-> "step", h |-> NULL, res |-> "", req |-> NoReq, rep |-> FALSE]

\* One step of a thread left the world w
Step(w) ==
    /\ Apply([w EXCEPT !.calls = << >>])
    /\ lastOp' = StepOp
    /\ UNCHANGED track

\* embed_window, the two checks
EmbedCheck(k) ==
    /\ MayCall(k, "embed")
    /\ thr' = [thr EXCEPT ![k] =
                  IF Rejection(World, k) # ""
                  THEN Returned(Began(k, "embed"), Rejection(World, k))
                  ELSE [Began(k, "embed") EXCEPT !.pc = "e_host"]]
    /\ Step(World)
    /\ UNCHANGED lock

\* the clip-children bit of the host frame
EmbedHost(k) ==
    /\ thr[k].pc = "e_host"
    /\ thr' = [thr EXCEPT ![k].pc = "e_capture"]
    /\ Step(IF hostStyle \cap WS_CLIPCHILDREN = {}
            THEN SetHostStyle(World, hostStyle \cup WS_CLIPCHILDREN)
            ELSE World)
    /\ UNCHANGED lock

\* original_style, original_exstyle, original_rect
EmbedCapture(k) ==
    /\ thr[k].pc = "e_capture"
    /\ thr' = [thr EXCEPT ![k].pc = "e_lock",
                          ![k].style = GetStyle(World, k),
                          ![k].exstyle = GetExStyle(World, k),
                          ![k].rect = GetWindowRect(World, k)]
    /\ Step(World)
    /\ UNCHANGED lock

\* ORIGINAL_STYLES.lock()
EmbedLock(k) ==
    /\ thr[k].pc = "e_lock"
    /\ lock = NULL
    /\ lock' = k
    /\ thr' = [thr EXCEPT ![k].pc = "e_push"]
    /\ Step(World)

\* Variant: the entry is pushed into a new vector, which replaces the
\* registry
EmbedPush_replace(k) ==
    /\ thr[k].pc = "e_push"
    /\ lock' = NULL
    /\ thr' = [thr EXCEPT ![k].pc = "e_style"]
    /\ Step([World EXCEPT !.registry =
                 RegistryInsert(<< >>, k, thr[k].style, thr[k].exstyle, thr[k].rect)])

\* the push unless an entry exists, and the end of the guard's scope
EmbedPush(k) ==
    /\ thr[k].pc = "e_push"
    /\ lock' = NULL
    /\ thr' = [thr EXCEPT ![k].pc = "e_style"]
    /\ Step([World EXCEPT !.registry =
                 RegistryInsert(@, k, thr[k].style, thr[k].exstyle, thr[k].rect)])

EmbedSetStyle(k) ==
    /\ thr[k].pc = "e_style"
    /\ thr' = [thr EXCEPT ![k].pc = "e_parent"]
    /\ Step(SetStyle(World, k, EmbedStyle(thr[k].style)))
    /\ UNCHANGED lock

EmbedSetParent(k) ==
    /\ thr[k].pc = "e_parent"
    /\ thr' = [thr EXCEPT ![k].pc = "e_pos"]
    /\ Step(SetParent(World, k, HostFrame))
    /\ UNCHANGED lock

\* the SetWindowPos of embed_window, then the call of activate_window
EmbedRaise(k) ==
    /\ thr[k].pc = "e_pos"
    /\ thr' = [thr EXCEPT ![k].pc = "a_begin"]
    /\ Step(SetWindowPos(World, k, "HWND_TOP", 0, 0, 0, 0,
                         SWP_NOMOVE \cup SWP_NOSIZE \cup SWP_SHOWWINDOW))
    /\ UNCHANGED lock

\* activate_window, called by the UI or by embed_window: IsWindow, the two
\* thread ids and the attach.  The Ok(false) of a dead handle is dropped by
\* embed_window, which returns Ok(true).
ActivateAttach(k, Os) ==
    \E osOk \in Os :
        LET t == IF thr[k].pc = "idle" THEN Began(k, "activate") ELSE thr[k]
            id_current == Tid(k)
            id_target == GetWindowThreadId(World, k)
            differ == ThreadsDiffer(id_current, id_target)
        IN  /\ thr[k].pc = "a_begin" \/ MayCall(k, "activate")
            /\ thr' = [thr EXCEPT ![k] =
                          IF ~valid[k]
                          THEN Returned(t, IF t.cmd = "embed" THEN "Ok(true)"
                                           ELSE "Ok(false)")
                          ELSE [t EXCEPT !.pc = "a_pos", !.tid = id_target,
                                         !.att = differ /\ AttachSucceeds(
                                                     id_current, id_target, osOk)]]
            /\ Step(IF valid[k] /\ differ
                    THEN AttachThreadInput(World, id_current, id_target, TRUE, osOk)
                    ELSE World)
            /\ UNCHANGED lock

ActivateRaise(k) ==
    /\ thr[k].pc = "a_pos"
    /\ thr' = [thr EXCEPT ![k].pc = "a_focus"]
    /\ Step(SetWindowPos(World, k, "HWND_TOP", 0, 0, 0, 0,
                         SWP_NOMOVE \cup SWP_NOSIZE \cup SWP_SHOWWINDOW))
    /\ UNCHANGED lock

\* SetActiveWindow and SetFocus on the render window or on the window
ActivateFocus(k) ==
    LET render_hwnd == find_render_window(k)
        target == IF render_hwnd # NULL THEN render_hwnd ELSE k
    IN  /\ thr[k].pc = "a_focus"
        /\ thr' = [thr EXCEPT ![k].pc = "a_spawn"]
        /\ Step(SetFocus(SetActiveWindow(World, target), target))
        /\ UNCHANGED lock

\* the spawn of the delayed detach, and the return
ActivateSpawn(k) ==
    LET w == IF thr[k].att THEN SpawnDetach(World, Tid(k), thr[k].tid) ELSE World
    IN  /\ thr[k].pc = "a_spawn"
        /\ PendingTotal(w.pending) <= MaxPending
        /\ thr' = [thr EXCEPT ![k] = Returned(thr[k], "Ok(true)")]
        /\ Step(w)
        /\ UNCHANGED lock

\* release_window: the two thread ids and the detach
ReleaseDetach(k) ==
    LET id_current == Tid(k)
        id_target == GetWindowThreadId(World, k)
    IN  /\ MayCall(k, "release")
        /\ thr' = [thr EXCEPT ![k] = [Began(k, "release") EXCEPT !.pc = "r_parent"]]
        /\ Step(IF ThreadsDiffer(id_current, id_target)
                THEN AttachThreadInput(World, id_current, id_target, FALSE, TRUE)
                ELSE World)
        /\ UNCHANGED lock

ReleaseSetParent(k) ==
    /\ thr[k].pc = "r_parent"
    /\ thr' = [thr EXCEPT ![k].pc = "r_lock"]
    /\ Step(SetParent(World, k, NULL))
    /\ UNCHANGED lock

\* let styles = ORIGINAL_STYLES.lock().unwrap(): the guard lives to the end
\* of the block
ReleaseLock(k) ==
    /\ thr[k].pc = "r_lock"
    /\ lock = NULL
    /\ lock' = k
    /\ thr' = [thr EXCEPT ![k].pc = "r_find"]
    /\ Step(World)

\* styles.iter().find(..)
ReleaseFind(k) ==
    /\ thr[k].pc = "r_find"
    /\ thr' = [thr EXCEPT ![k] =
                  IF RegistryHas(registry, k)
                  THEN LET e == registry[RegistryFind(registry, k)]
                       IN  [@ EXCEPT !.pc = "r_style", !.found = TRUE,
                                     !.style = e.style, !.exstyle = e.exstyle,
                                     !.rect = e.rect]
                  ELSE [@ EXCEPT !.pc = "r_style", !.found = FALSE]]
    /\ Step([World EXCEPT !.registry = RegistryAfterRelease(@, k)])
    /\ UNCHANGED lock

\* SetWindowLongW(hwnd, GWL_STYLE, ..) of either branch
ReleaseSetStyle(k) ==
    /\ thr[k].pc = "r_style"
    /\ thr' = [thr EXCEPT ![k].pc = IF thr[k].found THEN "r_exstyle" ELSE "r_pos"]
    /\ Step(SetStyle(World, k, IF thr[k].found THEN thr[k].style
                               ELSE WS_OVERLAPPEDWINDOW \cup WS_VISIBLE))
    /\ UNCHANGED lock

ReleaseSetExStyle(k) ==
    /\ thr[k].pc = "r_exstyle"
    /\ thr' = [thr EXCEPT ![k].pc = "r_pos"]
    /\ Step(SetExStyle(World, k, thr[k].exstyle))
    /\ UNCHANGED lock

\* SetWindowPos of either branch
ReleaseSetPos(k) ==
    LET r == thr[k].rect
    IN  /\ thr[k].pc = "r_pos"
        /\ thr' = [thr EXCEPT ![k].pc = "r_show"]
        /\ Step(IF thr[k].found
                THEN SetWindowPos(World, k, "HWND_TOP", r.left, r.top,
                                  r.right - r.left, r.bottom - r.top,
                                  SWP_FRAMECHANGED \cup SWP_SHOWWINDOW)
                ELSE SetWindowPos(World, k, "HWND_TOP", 100, 100, 800, 600,
                                  SWP_FRAMECHANGED \cup SWP_SHOWWINDOW))
        /\ UNCHANGED lock

ReleaseShow(k) ==
    /\ thr[k].pc = "r_show"
    /\ thr' = [thr EXCEPT ![k].pc = "r_fg"]
    /\ Step(ShowWindow(World, k, "SW_RESTORE"))
    /\ UNCHANGED lock

\* SetForegroundWindow, Ok(true) and the end of the block, where the guard
\* is dropped
ReleaseForeground(k) ==
    /\ thr[k].pc = "r_fg"
    /\ lock' = NULL
    /\ thr' = [thr EXCEPT ![k] = Returned(thr[k], "Ok(true)")]
    /\ Step(SetForegroundWindow(World, k))

NextConc ==
    \/ \E k \in Workers : EmbedCheck(k)
    \/ \E k \in Workers : EmbedHost(k)
    \/ \E k \in Workers : EmbedCapture(k)
    \/ \E k \in Workers : EmbedLock(k)
    \/ \E k \in Workers : EmbedPush(k)
    \/ \E k \in Workers : EmbedSetStyle(k)
    \/ \E k \in Workers : EmbedSetParent(k)
    \/ \E k \in Workers : EmbedRaise(k)
    \/ \E k \in Workers : ActivateAttach(k, OsOutcomes)
    \/ \E k \in Workers : ActivateRaise(k)
    \/ \E k \in Workers : ActivateFocus(k)
    \/ \E k \in Workers : ActivateSpawn(k)
    \/ \E k \in Workers : ReleaseDetach(k)
    \/ \E k \in Workers : ReleaseSetParent(k)
    \/ \E k \in Workers : ReleaseLock(k)
    \/ \E k \in Workers : ReleaseFind(k)
    \/ \E k \in Workers : ReleaseSetStyle(k)
    \/ \E k \in Workers : ReleaseSetExStyle(k)
    \/ \E k \in Workers : ReleaseSetPos(k)
    \/ \E k \in Workers : ReleaseShow(k)
    \/ \E k \in Workers : ReleaseForeground(k)
    \/ \E p \in ThreadPairs : DetachTask(p)

SpecConc == InitConc /\ [][NextConc]_vars

\* Enumeration: any desktop, enumerated by enumerate_windows
InitEnum ==
    /\ Start([h \in Handles |-> DeadProfile])
    /\ desktop \in Desktops

EnumerateWindows ==
    /\ listed' = enumerate_windows(desktop)
    /\ lastOp' = [op |-> "enumerate", h |-> NULL, res |-> "", req |-> NoReq,
                  rep |-> (lastOp.op = "enumerate")]
    /\ UNCHANGED <<win, valid, style, exstyle, rect, parent, hostStyle, registry,
                   attached, pending, balance, calls, desktop, thr, lock, track>>

NextEnum == EnumerateWindows

SpecEnum == InitEnum /\ [][NextEnum]_vars

\* The delayed detach: every command that attaches, detaches or ends the
\* life of the window of handle 1, which is any kind of window, and the
\* delayed-detach threads.  A thread that was spawned sleeps 100 ms and then
\* runs: the scheduler does not starve it.
NextLive ==
    \/ Embed(1, OsOutcomes)
    \/ Activate(1, OsOutcomes)
    \/ Release(1)
    \/ Close(1)
    \/ WindowDestroyed(1)
    \/ \E p \in ThreadPairs : DetachTask(p)

SpecLive ==
    Init /\ [][NextLive]_vars /\ \A p \in ThreadPairs : WF_vars(DetachTask(p))

\* ------------------------------------------------------------------------
\* Properties
\* ------------------------------------------------------------------------

\* Positions in `calls` of the calls of window-manager function f
CallsOf(f) == {i \in 1..Len(calls) : calls[i].f = f}

Width(r) == r.right - r.left
Height(r) == r.bottom - r.top

\* C1: after release(h) returns, the registry contains no entry for h,
\* whatever operations came before.
C1_ReleaseRemovesEntry ==
    lastOp.op = "release" => ~RegistryHas(registry, lastOp.h)

\* The decoration and popup bits: caption (border + dialog frame), thick
\* frame, minimize and maximize box, system menu, popup
DecorationBits ==
    {"WS_BORDER", "WS_DLGFRAME", "WS_THICKFRAME", "WS_MINIMIZEBOX",
     "WS_MAXIMIZEBOX", "WS_SYSMENU", "WS_POPUP"}

\* C2: after embed(h) returns success, the registry contains h, the parent
\* of h is the HostFrame, and the style of h has the child and visible bits
\* and none of the decoration and popup bits.
C2_EmbedPostcondition ==
    (lastOp.op = "embed" /\ lastOp.res = "Ok(true)") =>
        LET h == lastOp.h
        IN  /\ RegistryHas(registry, h)
            /\ parent[h] = HostFrame
            /\ {"WS_CHILD", "WS_VISIBLE"} \subseteq style[h]
            /\ style[h] \cap DecorationBits = {}

\* The window of handle h is as the embed that began its cycle found it,
\* but for its style, which is s
RestoredWith(h, s) ==
    /\ parent[h] = NULL
    /\ "WS_VISIBLE" \in style[h]
    /\ style[h] = s
    /\ exstyle[h] = track[h].exstyle
    /\ rect[h].left = track[h].rect.left
    /\ rect[h].top = track[h].rect.top
    /\ Width(rect[h]) = Width(track[h].rect)
    /\ Height(rect[h]) = Height(track[h].rect)

EntriesOf(styles, h) == {i \in 1..Len(styles) : styles[i].hwnd = h}

C4_AtMostOneEntry ==
    \A h \in Handles : Cardinality(EntriesOf(registry, h)) <= 1

C4_SecondEmbed ==
    (/\ lastOp.op = "embed" /\ lastOp.res = "Ok(true)"
     /\ lastOp'.op = "embed" /\ lastOp'.res = "Ok(true)"
     /\ lastOp'.h = lastOp.h) =>
        LET h == lastOp.h
        IN  /\ registry' = registry
            /\ Cardinality(EntriesOf(registry', h)) = 1
            /\ style'[h] = style[h]
            /\ parent'[h] = parent[h]
            /\ (track'[h].phase = "embedded" /\ track'[h].fresh) =>
                   \A i \in EntriesOf(registry', h) :
                       /\ registry'[i].style = track'[h].style
                       /\ registry'[i].exstyle = track'[h].exstyle
                       /\ registry'[i].rect = track'[h].rect

C5_SecondRelease ==
    \A h \in Handles :
        (/\ track[h].phase = "released"
         /\ lastOp'.op = "release" /\ lastOp'.h = h) =>
            /\ registry' = registry
            /\ valid'[h] = valid[h]
            /\ style'[h] = style[h]
            /\ exstyle'[h] = exstyle[h]
            /\ rect'[h] = rect[h]
            /\ parent'[h] = parent[h]

\* C5: a release(h) that follows the release(h) of an embedded window leaves
\* the registry and the window's style, extended style, screen rectangle,
\* parent and visibility as the first release left them.
C5_DoubleRelease == [][C5_SecondRelease]_vars

\* C5 witness: a second release in a row of a window that was embedded
C5_Witness ==
    /\ lastOp.op = "release" /\ lastOp.rep
    /\ valid[lastOp.h]
    /\ RegistryHas(registry, lastOp.h)
    /\ parent[lastOp.h] = NULL

\* The position of h in the client coordinates of the host frame and its
\* size are within 1 pixel of the rectangle q
WithinOnePixel(h, q) ==
    /\ Abs(rect[h].left - HostOrigin.x - q.x) <= 1
    /\ Abs(rect[h].top - HostOrigin.y - q.y) <= 1
    /\ Abs(Width(rect[h]) - q.w) <= 1
    /\ Abs(Height(rect[h]) - q.h) <= 1

C6_Skip ==
    LET h == lastOp'.h
        q == lastOp'.req
    IN  (/\ lastOp'.op = "update_rect"
         /\ valid[h] /\ RegistryHas(registry, h) /\ parent[h] = HostFrame
         /\ WithinOnePixel(h, q)) =>
            /\ lastOp'.res = "Ok(true)"
            /\ \A i \in 1..Len(calls') : calls'[i].f # "set_pos"

\* C6: update_rect of a valid embedded window whose position in the parent's
\* client coordinates and size are within 1 pixel of the requested rectangle
\* in each of the four components returns success and issues no set_pos,
\* however often it is repeated.
C6_NoMoveWithinOnePixel == [][C6_Skip]_vars

\* C6 witness: an update_rect of an embedded window returned without a call
\* although the window is not exactly at the requested rectangle
C6_Witness ==
    /\ lastOp.op = "update_rect" /\ lastOp.res = "Ok(true)" /\ calls = << >>
    /\ valid[lastOp.h] /\ parent[lastOp.h] = HostFrame
    /\ RegistryHas(registry, lastOp.h)
    /\ \/ rect[lastOp.h].left - HostOrigin.x # lastOp.req.x
       \/ Height(rect[lastOp.h]) # lastOp.req.h

\* C7: no attach_input call, of activate, of the delayed detach or of
\* release, has equal source and destination threads, and no detach is
\* scheduled for such a pair; activate of a window on the caller's thread
\* makes no attach_input call and schedules no detach.
C7_NoSelfAttach ==
    /\ \A i \in 1..Len(calls) :
           calls[i].f \in {"attach_input", "spawn_detach"} =>
               calls[i].arg.src # calls[i].arg.dst
    /\ \A p \in ThreadPairs : pending[p] > 0 => p[1] # p[2]
    /\ (/\ lastOp.op = "activate" /\ valid[lastOp.h]
        /\ win[lastOp.h].tid = HostTid) =>
           CallsOf("attach_input") \cup CallsOf("spawn_detach") = {}

\* C7 witness: a window on the caller's thread has been activated
C7_Witness ==
    /\ lastOp.op = "activate" /\ lastOp.res = "Ok(true)"
    /\ win[lastOp.h].tid = HostTid
    /\ CallsOf("set_focus") # {}

\* The first descendant of h of the render-surface class, NULL if none
FirstRenderDescendant(h) ==
    LET cs == win[h].children
        n == Len(cs)
    IN  IF \E i \in 1..n : cs[i] = "Chrome_RenderWidgetHostHWND"
        THEN ChildHwnd(h, CHOOSE i \in 1..n :
                 /\ cs[i] = "Chrome_RenderWidgetHostHWND"
                 /\ \A j \in 1..(i - 1) : cs[j] # "Chrome_RenderWidgetHostHWND")
        ELSE NULL

\* C8: activate(h) of a valid window calls set_active once and set_focus
\* once, both on the first descendant of h of class
\* "Chrome_RenderWidgetHostHWND" if there is one, and on h otherwise.
C8_FocusTarget ==
    (lastOp.op = "activate" /\ valid[lastOp.h]) =>
        LET h == lastOp.h
            t == IF FirstRenderDescendant(h) # NULL
                 THEN FirstRenderDescendant(h) ELSE h
        IN  /\ Cardinality(CallsOf("set_active")) = 1
            /\ Cardinality(CallsOf("set_focus")) = 1
            /\ \A i \in CallsOf("set_active") \cup CallsOf("set_focus") :
                   calls[i].h = t

\* C8 witness: the activation of a window with two render-surface
\* descendants has focused a descendant
C8_Witness ==
    /\ lastOp.op = "activate" /\ valid[lastOp.h]
    /\ Cardinality({i \in 1..Len(win[lastOp.h].children) :
                       win[lastOp.h].children[i] = "Chrome_RenderWidgetHostHWND"}) = 2
    /\ \E i \in CallsOf("set_focus") : calls[i].h # lastOp.h

NotEmbeddable == {"Err(self)", "Err(dangerous)"}

\* The class of h contains an entry of the denylist
HasForbiddenClass(h) ==
    \E i \in 1..Len(dangerous) : Contains(win[h].class, dangerous[i])

C9_Rejects ==
    (lastOp.op \in {"embed", "can_embed"} /\ valid[lastOp.h]) =>
        LET h == lastOp.h
        IN  /\ win[h].pid = HostPid => lastOp.res = "Err(self)"
            /\ (win[h].pid # HostPid /\ HasForbiddenClass(h)) =>
                   lastOp.res = "Err(dangerous)"

C9_RejectedEmbed ==
    (lastOp'.op = "embed" /\ lastOp'.res \in NotEmbeddable) =>
        /\ registry' = registry
        /\ style' = style
        /\ parent' = parent
        /\ hostStyle' = hostStyle
        /\ \A i \in 1..Len(calls') : calls'[i].f \notin {"attach_input", "set_focus"}

\* C9: embed(h) and can_embed(h) return a NotEmbeddable error when h belongs
\* to the host process and when the class of h contains a denylist entry; a
\* rejected embed leaves the registry, the style and parent of h and the
\* style of the host frame unchanged and calls neither attach_input nor
\* set_focus.
C9_NotEmbeddable == []C9_Rejects /\ [][C9_RejectedEmbed]_vars

\* C9 witness: embed has rejected a window whose class contains a denylist
\* entry without being one
C9_Witness ==
    /\ lastOp.op = "embed" /\ lastOp.res = "Err(dangerous)"
    /\ \A i \in 1..Len(dangerous) : win[lastOp.h].class # dangerous[i]
    /\ ~RegistryHas(registry, lastOp.h)

C10_Gone ==
    (lastOp.op \in {"update_rect", "activate"} /\ ~valid[lastOp.h]) =>
        /\ lastOp.res = "Ok(false)"
        /\ calls = << >>

C10_GoneFrame ==
    (lastOp'.op \in {"update_rect", "activate"} /\ ~valid[lastOp'.h]) =>
        /\ registry' = registry
        /\ pending' = pending

\* C10: update_rect and activate on a handle that is not a window return
\* Ok(false), the Gone result, issue no window-manager call, schedule no
\* delayed detach and leave the registry unchanged.
C10_GoneIsSuccess == []C10_Gone /\ [][C10_GoneFrame]_vars

\* C10 witness: update_rect on the handle of a destroyed window that has a
\* registry entry
C10_Witness ==
    /\ lastOp.op = "update_rect" /\ lastOp.res = "Ok(false)"
    /\ ~valid[lastOp.h]
    /\ win[lastOp.h] # DeadProfile
    /\ RegistryHas(registry, lastOp.h)

\* The first call of thread k is embed
FirstIsEmbed(k) == thr[k].cmd = "embed" /\ thr[k].n = 1

\* The first call of thread k is embed and it is past its critical section
Inserted(k) ==
    /\ FirstIsEmbed(k)
    /\ thr[k].pc \notin {"e_host", "e_capture", "e_lock", "e_push"}

\* C11: from an empty registry, embed(h1) and embed(h2) running on two
\* threads both return success under every interleaving of their steps, and
\* once both have inserted, the registry holds exactly one entry for h1 and
\* one for h2, each with the style, extended style and rectangle its own
\* window had.
C11_ConcurrentEmbeds ==
    /\ \A k \in Workers :
           (FirstIsEmbed(1) /\ FirstIsEmbed(2) /\ thr[k].pc = "idle") =>
               thr[k].res = "Ok(true)"
    /\ (Inserted(1) /\ Inserted(2)) =>
           /\ Len(registry) = 2
           /\ \A h \in Handles :
                  /\ Cardinality(EntriesOf(registry, h)) = 1
                  /\ \A i \in EntriesOf(registry, h) :
                         /\ registry[i].style = win[h].style
                         /\ registry[i].exstyle = win[h].exstyle
                         /\ registry[i].rect = win[h].rect

\* C11 witness: the two embeds have returned; the thread that began second
\* inserted first
C11_Witness ==
    /\ \A k \in Workers :
           FirstIsEmbed(k) /\ thr[k].pc = "idle" /\ thr[k].res = "Ok(true)"
    /\ Len(registry) = 2
    /\ registry[1].hwnd = 2 /\ registry[2].hwnd = 1
    /\ \A h \in Handles : parent[h] = HostFrame

\* The calls of the step that ends in the primed state which change window
\* h, its focus or the input queue of its thread
ModifyingCalls ==
    {"set_style", "set_exstyle", "set_parent", "set_pos", "show",
     "set_foreground", "set_active", "set_focus", "attach_input",
     "spawn_detach", "post_close"}

\* The standard overlapped-window style plus visible
OverlappedVisible ==
    {"WS_BORDER", "WS_DLGFRAME", "WS_SYSMENU", "WS_THICKFRAME",
     "WS_MINIMIZEBOX", "WS_MAXIMIZEBOX", "WS_VISIBLE"}

C12_Fallback ==
    LET h == lastOp'.h
    IN  (lastOp'.op = "release" /\ ~RegistryHas(registry, h)) =>
            /\ lastOp'.res = "Ok(true)"
            /\ registry' = registry
            /\ \E i \in 1..Len(calls') :
                   /\ calls'[i].f = "set_parent" /\ calls'[i].h = h
                   /\ calls'[i].arg.parent = NULL
            /\ \E i \in 1..Len(calls') :
                   /\ calls'[i].f = "set_style" /\ calls'[i].h = h
                   /\ calls'[i].arg.style = OverlappedVisible
            /\ \E i \in 1..Len(calls') :
                   /\ calls'[i].f = "set_pos" /\ calls'[i].h = h
                   /\ calls'[i].arg.x = 100 /\ calls'[i].arg.y = 100
                   /\ calls'[i].arg.cx = 800 /\ calls'[i].arg.cy = 600
            /\ valid[h] =>
                   /\ parent'[h] = NULL
                   /\ style'[h] = OverlappedVisible
                   /\ rect'[h] = [left |-> 100, top |-> 100,
                                  right |-> 900, bottom |-> 700]

\* C12: release(h) on a handle that has no registry entry returns ok, leaves
\* the registry unchanged, reparents h to no parent and applies the
\* fallback: the standard overlapped-window style plus visible, and the
\* rectangle x=100, y=100, width=800, height=600.
C12_ReleaseWithoutEntry == [][C12_Fallback]_vars

\* C12 witness: a window that was never embedded has been released; it had
\* neither the fallback style nor the fallback rectangle before
C12_Witness ==
    /\ lastOp.op = "release" /\ lastOp.res = "Ok(true)"
    /\ valid[lastOp.h] /\ ~RegistryHas(registry, lastOp.h)
    /\ win[lastOp.h].style # OverlappedVisible
    /\ Width(win[lastOp.h].rect) # 800
    /\ Width(rect[lastOp.h]) = 800 /\ Height(rect[lastOp.h]) = 600

\* C13: for every pair of threads, the detach calls issued so far (inline in
\* release, and by the delayed tasks of activate) never outnumber the
\* successful attach calls.
C13_DetachMatchesAttach == \A p \in ThreadPairs : balance[p] >= 0

C15_Refuses ==
    (lastOp.op = "embed" /\ ~valid[lastOp.h]) =>
        /\ lastOp.res \in {"Err(self)", "Err(dangerous)", "Err(invalid)"}
        /\ \A i \in 1..Len(calls) :
               ~(calls[i].h = lastOp.h /\ calls[i].f \in ModifyingCalls)
        /\ CallsOf("attach_input") = {}

C15_NoEntry ==
    (lastOp'.op = "embed" /\ ~valid[lastOp'.h]) =>
        EntriesOf(registry', lastOp'.h) = EntriesOf(registry, lastOp'.h)

\* C15: embed(h) on a handle that is not a window fails with an error,
\* inserts no registry entry for h and performs no style write, reparent,
\* set_pos or activation on h.
C15_EmbedInvalidFails == []C15_Refuses /\ [][C15_NoEntry]_vars

C16_Captured ==
    LET h == lastOp'.h
    IN  (/\ lastOp'.op = "embed" /\ lastOp'.res = "Ok(true)"
         /\ valid[h] /\ parent[h] = NULL) =>
            \E i \in EntriesOf(registry', h) :
                /\ registry'[i].style = style[h]
                /\ registry'[i].exstyle = exstyle[h]
                /\ registry'[i].rect = rect[h]

\* C16: in every cycle, after embed(h) succeeds on a free (top-level) window
\* the registry entry of h holds the style, extended style and screen
\* rectangle h had at the moment of that embed call.
C16_CapturePerCycle == [][C16_Captured]_vars

C17_Skips ==
    LET h == lastOp'.h
    IN  (lastOp'.op = "embed" /\ RegistryHas(registry, h)) =>
            /\ lastOp'.res = "Ok(true)"
            /\ \A i \in 1..Len(calls') :
                   calls'[i].f \notin {"set_style", "set_parent", "set_pos",
                                       "attach_input", "set_active", "set_focus"}

\* C17: an embed(h) that finds an entry for h in the registry performs no
\* style write, no reparent, no set_pos and no activation (no attach_input,
\* no set_focus), and returns success.
C17_ReembedSkips == [][C17_Skips]_vars

\* The calls of the last step that attach (a = TRUE) or detach (a = FALSE)
\* the pair p
AttachCalls(cs, p, a) ==
    {i \in 1..Len(cs) :
        /\ cs[i].f = "attach_input"
        /\ <<cs[i].arg.src, cs[i].arg.dst>> = p
        /\ cs[i].arg.attach = a}

C20_Step ==
    \A p \in ThreadPairs :
        \* a detach is scheduled by activate, of its own or inside embed,
        \* exactly when its attach call succeeded
        /\ (pending'[p] > pending[p]) <=>
               /\ lastOp'.op \in {"activate", "embed"}
               /\ \E i \in AttachCalls(calls', p, TRUE) : calls'[i].arg.ok
        \* it is scheduled after set_focus, and the command does not detach
        /\ (pending'[p] > pending[p]) =>
               /\ pending'[p] = pending[p] + 1
               /\ AttachCalls(calls', p, FALSE) = {}
               /\ \A i, j \in 1..Len(calls') :
                      (calls'[i].f = "set_focus" /\ calls'[j].f = "spawn_detach")
                          => i < j
        \* it is cancelled by nothing: only its thread takes it away
        /\ (pending'[p] < pending[p]) =>
               /\ lastOp'.op = "detach_task"
               /\ pending'[p] = pending[p] - 1
               /\ AttachCalls(calls', p, FALSE) # {}

\* C20: a delayed detach is scheduled exactly when the attach call of
\* activate succeeded, after set_focus and never inline; nothing cancels it,
\* not the release, the close or the end of the window; and the separate
\* thread eventually issues the detach for that pair of threads.
C20_DelayedDetach ==
    /\ [][C20_Step]_vars
    /\ \A p \in ThreadPairs :
           (pending[p] > 0) ~>
               (lastOp.op = "detach_task" /\ AttachCalls(calls, p, FALSE) # {})

\* C20 witness: the delayed detach has run after the window it was
\* scheduled for was released and then destroyed
C20_Witness ==
    /\ lastOp.op = "detach_task"
    /\ \E h \in Handles :
           /\ win[h] # DeadProfile /\ ~valid[h]
           /\ AttachCalls(calls, <<HostTid, win[h].tid>>, FALSE) # {}
           /\ balance[<<HostTid, win[h].tid>>] = -1

\* Window t is one that the enumeration is to yield
Presentable(t) ==
    /\ t.visible
    /\ t.pid # HostPid
    /\ t.title # ""
    /\ \A i \in 1..(Len(t.title) - 8) : SubSeq(t.title, i, i + 8) # "WindowHub"
    /\ t.class \notin {"Progman", "Shell_TrayWnd", "Shell_SecondaryTrayWnd",
                       "Windows.UI.Core.CoreWindow", "ApplicationFrameWindow",
                       "WorkerW", "TaskManagerWindow"}
    /\ Width(t.rect) > 100
    /\ Height(t.rect) > 100

\* C14: enumerate_windows yields exactly the top-level windows that are
\* visible, not owned by the host process, titled without "WindowHub", of a
\* class that is not in the presentation denylist and more than 100 pixels
\* wide and high; each once, with its title, class and size, in the order of
\* the enumeration.
C14_EnumerationFilter ==
    lastOp.op = "enumerate" =>
        LET yes == {i \in 1..Len(desktop) : Presentable(desktop[i])}
        IN  /\ Len(listed) = Cardinality(yes)
            /\ \A i \in yes : \E j \in 1..Len(listed) :
                   /\ listed[j].hwnd = desktop[i].hwnd
                   /\ listed[j].title = desktop[i].title
                   /\ listed[j].class_name = desktop[i].class
                   /\ listed[j].width = Width(desktop[i].rect)
                   /\ listed[j].height = Height(desktop[i].rect)
            /\ \A j \in 1..Len(listed) : \E i \in yes :
                   listed[j].hwnd = desktop[i].hwnd
            /\ \A j, k \in 1..Len(listed) :
                   j < k => listed[j].hwnd < listed[k].hwnd

\* C14 witness: a desktop of the host, the shell tray and an editor of 400
\* by 300 pixels has been enumerated, and the editor is all that was listed
C14_Witness ==
    /\ lastOp.op = "enumerate"
    /\ Len(desktop) = 3
    /\ desktop[1].pid = HostPid
    /\ desktop[2].class = "Shell_TrayWnd"
    /\ desktop[3].class = "Notepad" /\ desktop[3].visible
    /\ Len(listed) = 1
    /\ listed[1].hwnd = desktop[3].hwnd
    /\ listed[1].width = 400 /\ listed[1].height = 300

\* C18: the mutex of the registry is held only for the lookup and the
\* insert: a thread that holds it is at the push of embed or at the find of
\* release, never at a call of the window manager.
C18_NoLockAcrossCalls ==
    \A k \in Workers : lock = k => thr[k].pc \in {"e_push", "r_find"}

\* C19: when activate, its attach having succeeded, comes to set_active and
\* set_focus, the input queues of its thread and of the window's thread are
\* attached, whatever the delayed detaches of earlier activations did in
\* between.
C19_AttachedAtFocus ==
    \A k \in Workers :
        (thr[k].pc = "a_focus" /\ thr[k].att) =>
            <<Tid(k), thr[k].tid>> \in attached

C21_Untouched ==
    LET h == lastOp'.h
    IN  (/\ lastOp'.op \in {"release", "close", "update_rect", "activate",
                           "hide", "show"}
         /\ ~RegistryHas(registry, h)) =>
            \A i \in 1..Len(calls') :
                ~(calls'[i].h = h /\ calls'[i].f \in ModifyingCalls)

\* C21: release, close, update_rect, activate, hide and show on a handle
\* that has no registry entry make no call that changes the window of the
\* handle: its style, extended style, parent, geometry, visibility or focus.
C21_OnlyRegistered == [][C21_Untouched]_vars

\* Positions in the calls cs of the calls of f on window h
On(cs, f, h) == {i \in 1..Len(cs) : cs[i].f = f /\ cs[i].h = h}

C22_Close ==
    LET h == lastOp'.h
        n == Len(calls')
    IN  lastOp'.op = "close" =>
            /\ lastOp'.res = "Ok(true)"
            \* the close message is posted once, after every call of the release
            /\ On(calls', "post_close", h) = {n}
            \* the release: detach, no parent, style and rectangle, restore
            /\ win[h].tid \notin {HostTid, NULL} =>
                   \E i \in 1..n : /\ calls'[i].f = "attach_input"
                                   /\ ~calls'[i].arg.attach
                                   /\ \A j \in On(calls', "set_parent", h) : i < j
            /\ \E i \in On(calls', "set_parent", h) :
                   /\ calls'[i].arg.parent = NULL
                   /\ \E j \in On(calls', "set_style", h) : i < j
            /\ \E i \in On(calls', "set_style", h) :
                   \E j \in On(calls', "set_pos", h) : i < j
            /\ \E i \in On(calls', "set_pos", h) :
                   \E j \in On(calls', "show", h) : i < j /\ j < n
            /\ valid[h] =>
                   /\ parent'[h] = NULL
                   /\ "WS_VISIBLE" \in style'[h]
                   /\ "WS_CHILD" \notin style'[h]
                   /\ \A i \in EntriesOf(registry, h) :
                          /\ exstyle'[h] = registry[i].exstyle
                          /\ rect'[h] = registry[i].rect
            \* nothing is waited for: the window is as valid as it was
            /\ valid'[h] = valid[h]
            /\ pending' = pending

\* C22: close(h) performs the whole release(h), detach, reparent to no
\* parent, restore of style and rectangle, then posts the close message
\* once; it returns ok whatever the release did and does not wait: the
\* window is still valid when close returns.
C22_ReleaseThenPost == [][C22_Close]_vars

\* C22 witness: an embedded window that is still a window has been closed
C22_Witness ==
    /\ lastOp.op = "close" /\ lastOp.res = "Ok(true)"
    /\ valid[lastOp.h]
    /\ RegistryHas(registry, lastOp.h)
    /\ parent[lastOp.h] = NULL
    /\ win[lastOp.h].tid # HostTid
    /\ rect[lastOp.h] = win[lastOp.h].rect

C23_Carried ==
    (registry # << >> \/ \E h \in Handles : parent[h] = HostFrame) =>
        "WS_CLIPCHILDREN" \in hostStyle

C23_Kept ==
    /\ hostStyle \subseteq hostStyle'
    /\ (lastOp'.op = "embed" /\ lastOp'.res = "Ok(true)") =>
           "WS_CLIPCHILDREN" \in hostStyle'
    \* the host style is written by embed alone, when the bit is absent,
    \* before any call on the foreign window
    /\ \A i \in 1..Len(calls') :
           (calls'[i].f = "set_style" /\ calls'[i].h = HostFrame) =>
               /\ lastOp'.op = "embed"
               /\ "WS_CLIPCHILDREN" \notin hostStyle
               /\ i = 1

\* C23: once a window has been embedded, the host frame carries the
\* clip-children bit: embed sets it before it touches the foreign window,
\* writes the host style only when the bit is absent, and no operation
\* clears it, the release of the last embedded window included.
C23_ClipChildren == []C23_Carried /\ [][C23_Kept]_vars

\* C23 witness: the only embedded window has been released
C23_Witness ==
    /\ lastOp.op = "release" /\ valid[lastOp.h]
    /\ track[lastOp.h].phase = "released"
    /\ \A h \in Handles : parent[h] = NULL
    /\ "WS_CLIPCHILDREN" \in hostStyle

\* The rectangle r, on the screen, of a child of the host frame is within 1
\* pixel of the client rectangle q in each component
NearRect(r, q) ==
    /\ r.left - HostOrigin.x - q.x \in {-1, 0, 1}
    /\ r.top - HostOrigin.y - q.y \in {-1, 0, 1}
    /\ (r.right - r.left) - q.w \in {-1, 0, 1}
    /\ (r.bottom - r.top) - q.h \in {-1, 0, 1}

C24_Update ==
    LET h == lastOp'.h
        q == lastOp'.req
    IN  (/\ lastOp'.op = "update_rect" /\ lastOp'.res = "Ok(true)"
         /\ valid[h] /\ parent[h] = HostFrame) =>
            /\ NearRect(rect'[h], q)
            /\ (calls' = << >>) <=> NearRect(rect[h], q)
            /\ calls' # << >> =>
                   /\ Len(calls') = 1
                   /\ calls'[1].f = "set_pos" /\ calls'[1].h = h
                   /\ calls'[1].arg.x = q.x /\ calls'[1].arg.y = q.y
                   /\ calls'[1].arg.cx = q.w /\ calls'[1].arg.cy = q.h
                   /\ calls'[1].arg.flags =
                          {"SWP_NOZORDER", "SWP_NOACTIVATE", "SWP_SHOWWINDOW"}

\* The last command on an embedded window was an update_rect: the window is
\* within 1 pixel of the rectangle it requested
C24_NoDrift ==
    (/\ lastOp.op = "update_rect" /\ lastOp.res = "Ok(true)"
     /\ valid[lastOp.h] /\ parent[lastOp.h] = HostFrame) =>
        NearRect(rect[lastOp.h], lastOp.req)

\* C24: after an update_rect that returns success on a valid embedded
\* window, and after any sequence of them, the window's position in the
\* parent's client coordinates and its size are within 1 pixel of the last
\* requested rectangle: the call is skipped only when all four components
\* are within 1 pixel, otherwise one set_pos is issued with the requested
\* rectangle and the flags no-Z-order-change, no-activate, show.
C24_TracksRequest == []C24_NoDrift /\ [][C24_Update]_vars

\* C24 witness: an update_rect that moved the window by two pixels follows
\* another update_rect
C24_Witness ==
    /\ lastOp.op = "update_rect" /\ lastOp.rep /\ lastOp.res = "Ok(true)"
    /\ valid[lastOp.h] /\ parent[lastOp.h] = HostFrame
    /\ Len(calls) = 1
    /\ lastOp.req.x = 2
    /\ rect[lastOp.h].left = HostOrigin.x + 2

====
